---- MODULE Spec2Model ----
(***************************************************************************)
(* A model of src/src/lib.rs: the generic, unbalanced BinarySearchTree<T>  *)
(* with insert, len, is_empty and the four traversals.                     *)
(*                                                                         *)
(* The element type T is only required to be PartialOrd.  The model's      *)
(* elements are the integers 1..MaxVal together with one NaN-like element  *)
(* whose comparison with every element (itself included) is undefined, as  *)
(* for f64.                                                                *)
(***************************************************************************)
EXTENDS Integers, Sequences, FiniteSets, TLC

\* Largest ordinary element; the elements are 1..MaxVal and NaN.
MaxVal == 6

\* The NaN-like element: partial_cmp with it yields None.
NaN == 0

Values == (1..MaxVal) \cup {NaN}

\* The insertion sequence used by the four tests of the source.
TestInput == <<60, 12, 90, 4, 1, 100, 37, 84>>

(***************************************************************************)
(* The data type.                                                          *)
(***************************************************************************)
Empty == [tag |-> "Empty"]

Node(value, left, right) ==
    [tag |-> "Node", value |-> value, left |-> left, right |-> right]

IsNode(t) == t.tag = "Node"

None == [some |-> FALSE]

Some(v) == [some |-> TRUE, vec |-> v]

\* T::partial_cmp, an Option<Ordering>.
partial_cmp(a, b) ==
    IF a = NaN \/ b = NaN THEN "None"
    ELSE IF a < b THEN "Less"
    ELSE IF a > b THEN "Greater"
    ELSE "Equal"

new == Empty

(***************************************************************************)
(* insert                                                                  *)
(***************************************************************************)
\* Mutant: the comparison taken the other way round, value against new_value.
RECURSIVE insert_swapped(_, _)
insert_swapped(self, new_value) ==
    IF IsNode(self)
    THEN CASE partial_cmp(self.value, new_value) = "Less" ->
                Node(self.value, insert_swapped(self.left, new_value), self.right)
           [] partial_cmp(self.value, new_value) = "Greater" ->
                Node(self.value, self.left, insert_swapped(self.right, new_value))
           [] OTHER -> self
    ELSE Node(new_value, Empty, Empty)

\* Mutant: everything that is not Less goes to the right subtree.
RECURSIVE insert_dup_right(_, _)
insert_dup_right(self, new_value) ==
    IF IsNode(self)
    THEN CASE partial_cmp(new_value, self.value) = "Less" ->
                Node(self.value, insert_dup_right(self.left, new_value), self.right)
           [] OTHER ->
                Node(self.value, self.left, insert_dup_right(self.right, new_value))
    ELSE Node(new_value, Empty, Empty)

\* Mutant: the arm for neither Less nor Greater overwrites the node, as the
\* Empty arm does.
RECURSIVE insert_overwrite(_, _)
insert_overwrite(self, new_value) ==
    IF IsNode(self)
    THEN CASE partial_cmp(new_value, self.value) = "Less" ->
                Node(self.value, insert_overwrite(self.left, new_value), self.right)
           [] partial_cmp(new_value, self.value) = "Greater" ->
                Node(self.value, self.left, insert_overwrite(self.right, new_value))
           [] OTHER -> Node(new_value, Empty, Empty)
    ELSE Node(new_value, Empty, Empty)

RECURSIVE insert(_, _)
insert(self, new_value) ==
    IF IsNode(self)
    THEN CASE partial_cmp(new_value, self.value) = "Less" ->
                Node(self.value, insert(self.left, new_value), self.right)
           [] partial_cmp(new_value, self.value) = "Greater" ->
                Node(self.value, self.left, insert(self.right, new_value))
           [] OTHER -> self
    ELSE Node(new_value, Empty, Empty)

(***************************************************************************)
(* len and is_empty                                                        *)
(***************************************************************************)
\* Mutant: the right subtree is not counted.
RECURSIVE recursive_len_left_only(_, _)
recursive_len_left_only(n, root) ==
    IF IsNode(root)
    THEN recursive_len_left_only(n + 1, root.left)
    ELSE n

RECURSIVE recursive_len(_, _)
recursive_len(n, root) ==
    IF IsNode(root)
    THEN recursive_len(recursive_len(n + 1, root.left), root.right)
    ELSE n

len(self) ==
    IF IsNode(self) THEN recursive_len(0, self) ELSE 0

is_empty(self) == len(self) = 0

(***************************************************************************)
(* The depth-first traversals; v is the vector being filled.               *)
(***************************************************************************)
\* Mutant: the right subtree is visited before the left one.
RECURSIVE recursive_pre_order_traversal_right_first(_, _)
recursive_pre_order_traversal_right_first(v, root) ==
    IF IsNode(root)
    THEN recursive_pre_order_traversal_right_first(
             recursive_pre_order_traversal_right_first(
                 Append(v, root.value), root.right),
             root.left)
    ELSE v

RECURSIVE recursive_pre_order_traversal(_, _)
recursive_pre_order_traversal(v, root) ==
    IF IsNode(root)
    THEN recursive_pre_order_traversal(
             recursive_pre_order_traversal(Append(v, root.value), root.left),
             root.right)
    ELSE v

pre_order_traversal(self) ==
    IF IsNode(self)
    THEN Some(recursive_pre_order_traversal(<<>>, self))
    ELSE None

\* Mutant: the value is pushed after both subtrees, as in the post-order.
RECURSIVE recursive_in_order_traversal_pasted(_, _)
recursive_in_order_traversal_pasted(v, root) ==
    IF IsNode(root)
    THEN Append(recursive_in_order_traversal_pasted(
                    recursive_in_order_traversal_pasted(v, root.left),
                    root.right),
                root.value)
    ELSE v

RECURSIVE recursive_in_order_traversal(_, _)
recursive_in_order_traversal(v, root) ==
    IF IsNode(root)
    THEN recursive_in_order_traversal(
             Append(recursive_in_order_traversal(v, root.left), root.value),
             root.right)
    ELSE v

in_order_traversal(self) ==
    IF IsNode(self)
    THEN Some(recursive_in_order_traversal(<<>>, self))
    ELSE None

RECURSIVE recursive_post_order_traversal(_, _)
recursive_post_order_traversal(v, root) ==
    IF IsNode(root)
    THEN Append(recursive_post_order_traversal(
                    recursive_post_order_traversal(v, root.left), root.right),
                root.value)
    ELSE v

post_order_traversal(self) ==
    IF IsNode(self)
    THEN Some(recursive_post_order_traversal(<<>>, self))
    ELSE None

(***************************************************************************)
(* breadth_first_traversal: the while loop over the FIFO queue.            *)
(***************************************************************************)
\* The loop state is the vector v and the queue; pushed records every
\* argument of queue.push_back, in order.
\* Mutant: the right child is enqueued only when the left child is Empty.
RECURSIVE bfs_loop_else_if(_, _, _)
bfs_loop_else_if(v, queue, pushed) ==
    IF queue = <<>>
    THEN [v |-> v, pushed |-> pushed]
    ELSE LET front == Head(queue)
             rest  == Tail(queue)
             more  == IF IsNode(front.left) THEN <<front.left>>
                      ELSE IF IsNode(front.right) THEN <<front.right>>
                      ELSE <<>>
         IN  IF IsNode(front)
             THEN bfs_loop_else_if(Append(v, front.value), rest \o more,
                                   pushed \o more)
             ELSE bfs_loop_else_if(v, rest, pushed)

\* Mutant: pop_back in place of pop_front.
RECURSIVE bfs_loop_pop_back(_, _, _)
bfs_loop_pop_back(v, queue, pushed) ==
    IF queue = <<>>
    THEN [v |-> v, pushed |-> pushed]
    ELSE LET front == queue[Len(queue)]
             rest  == SubSeq(queue, 1, Len(queue) - 1)
             l     == IF IsNode(front.left) THEN <<front.left>> ELSE <<>>
             r     == IF IsNode(front.right) THEN <<front.right>> ELSE <<>>
         IN  IF IsNode(front)
             THEN bfs_loop_pop_back(Append(v, front.value), rest \o l \o r,
                                    pushed \o l \o r)
             ELSE bfs_loop_pop_back(v, rest, pushed)

RECURSIVE bfs_loop(_, _, _)
bfs_loop(v, queue, pushed) ==
    IF queue = <<>>
    THEN [v |-> v, pushed |-> pushed]
    ELSE LET front == Head(queue)
             rest  == Tail(queue)
             l     == IF IsNode(front.left) THEN <<front.left>> ELSE <<>>
             r     == IF IsNode(front.right) THEN <<front.right>> ELSE <<>>
         IN  IF IsNode(front)
             THEN bfs_loop(Append(v, front.value), rest \o l \o r,
                           pushed \o l \o r)
             ELSE bfs_loop(v, rest, pushed)

breadth_first_traversal(self) ==
    Some(bfs_loop(<<>>, <<self>>, <<self>>).v)

(***************************************************************************)
(* The state machine: one tree owned by a caller that calls its methods.   *)
(*   bst       the tree                                                    *)
(*   call      the last call made: its name, argument and return value,    *)
(*             and, for insert, whether the argument had been passed to    *)
(*             an earlier insert                                           *)
(*   inserted  history: the set of values passed to insert so far          *)
(***************************************************************************)
VARIABLES bst, call, inserted

vars == <<bst, call, inserted>>

Unit == "unit"

Init ==
    /\ bst = new
    /\ call = [op |-> "new", arg |-> NaN, seen |-> FALSE, ret |-> Unit]
    /\ inserted = {}

Insert ==
    \E x \in Values :
        /\ bst' = insert(bst, x)
        /\ call' = [op |-> "insert", arg |-> x, seen |-> x \in inserted,
                    ret |-> Unit]
        /\ inserted' = inserted \cup {x}

Query(op, ret) ==
    /\ call' = [op |-> op, arg |-> NaN, seen |-> FALSE, ret |-> ret]
    /\ UNCHANGED <<bst, inserted>>

IsEmpty == Query("is_empty", is_empty(bst))

Length == Query("len", len(bst))

PreOrder == Query("pre_order_traversal", pre_order_traversal(bst))

InOrder == Query("in_order_traversal", in_order_traversal(bst))

PostOrder == Query("post_order_traversal", post_order_traversal(bst))

BreadthFirst == Query("breadth_first_traversal", breadth_first_traversal(bst))

Next ==
    \/ Insert
    \/ IsEmpty
    \/ Length
    \/ PreOrder
    \/ InOrder
    \/ PostOrder
    \/ BreadthFirst

Spec == Init /\ [][Next]_vars

(***************************************************************************)
(* Vocabulary of the properties: positions in a tree are paths from the    *)
(* root, "L" for the left child and "R" for the right child.               *)
(***************************************************************************)
RECURSIVE NodePaths(_)
NodePaths(t) ==
    IF IsNode(t)
    THEN {<<>>} \cup {<<"L">> \o p : p \in NodePaths(t.left)}
                \cup {<<"R">> \o p : p \in NodePaths(t.right)}
    ELSE {}

RECURSIVE SubtreeAt(_, _)
SubtreeAt(t, p) ==
    IF p = <<>> THEN t
    ELSE IF Head(p) = "L" THEN SubtreeAt(t.left, Tail(p))
    ELSE SubtreeAt(t.right, Tail(p))

ValueAt(t, p) == SubtreeAt(t, p).value

StoredValues(t) == {ValueAt(t, p) : p \in NodePaths(t)}

PathOf(t, x) == CHOOSE p \in NodePaths(t) : ValueAt(t, p) = x

Range(s) == {s[i] : i \in DOMAIN s}

NoRepeats(s) == \A i, j \in DOMAIN s : i # j => s[i] # s[j]

Ascending(s) ==
    \A i \in 1..(Len(s) - 1) : partial_cmp(s[i], s[i + 1]) = "Less"

\* The vector of a traversal's result, empty for None.
Vec(opt) == IF opt.some THEN opt.vec ELSE <<>>

RECURSIVE InsertAll(_, _)
InsertAll(t, xs) ==
    IF xs = <<>> THEN t ELSE InsertAll(insert(t, Head(xs)), Tail(xs))

\* The tree the tests of the source build.
TestTree == InsertAll(new, TestInput)

\* p comes before q in level order.
LevelBefore(p, q) ==
    \/ Len(p) < Len(q)
    \/ /\ Len(p) = Len(q)
       /\ \E k \in DOMAIN p :
            /\ \A i \in 1..(k - 1) : p[i] = q[i]
            /\ p[k] = "L"
            /\ q[k] = "R"

\* All four traversals of a tree, in a fixed order.
Traversals(t) ==
    <<pre_order_traversal(t), in_order_traversal(t),
      post_order_traversal(t), breadth_first_traversal(t)>>

(***************************************************************************)
(* C1. BST ordering invariant: in every tree reachable from new() by       *)
(* insert calls, at every Node every value of the left subtree compares    *)
(* Less than the node's value and every value of the right subtree         *)
(* compares Greater; so no two stored values compare Equal.                *)
(***************************************************************************)
C1_BstOrdering ==
    /\ \A p \in NodePaths(bst) :
         LET n == SubtreeAt(bst, p)
         IN  /\ \A x \in StoredValues(n.left) :
                  partial_cmp(x, n.value) = "Less"
             /\ \A y \in StoredValues(n.right) :
                  partial_cmp(y, n.value) = "Greater"
    /\ \A p, q \in NodePaths(bst) :
         p # q => partial_cmp(ValueAt(bst, p), ValueAt(bst, q)) # "Equal"

\* An insert has produced a full tree whose root has two non-leaf children.
C1_Witness ==
    /\ call.op = "insert"
    /\ len(bst) = MaxVal
    /\ {<<"L", "R">>, <<"R", "L">>} \subseteq NodePaths(bst)

(***************************************************************************)
(* C2. After any sequence of inserts that leaves the tree non-empty,       *)
(* in_order_traversal returns Some(s) where each element of s compares     *)
(* Less than its successor and s holds exactly the stored values (all the  *)
(* inserted values, when these are mutually comparable); the insertion     *)
(* sequence of the tests yields 1,4,12,37,60,84,90,100.                    *)
(***************************************************************************)
C2_InOrderSorted ==
    /\ inserted # {} =>
         LET r == in_order_traversal(bst)
         IN  /\ r.some
             /\ Ascending(r.vec)
             /\ Range(r.vec) = StoredValues(bst)
             /\ Len(r.vec) = Cardinality(NodePaths(bst))
             /\ NaN \notin inserted => Range(r.vec) = inserted
    /\ in_order_traversal(TestTree) = Some(<<1, 4, 12, 37, 60, 84, 90, 100>>)

\* in_order_traversal has returned the elements of a full tree that is not
\* a chain.
C2_Witness ==
    /\ call.op = "in_order_traversal"
    /\ call.ret.some
    /\ Len(call.ret.vec) = MaxVal
    /\ {<<"L">>, <<"R">>} \subseteq NodePaths(bst)

(***************************************************************************)
(* C3. On a tree returned by new() with no insert performed, each of the   *)
(* four traversals returns None, is_empty() is true and len() is 0; and    *)
(* for any tree, a traversal returns None if and only if the tree is       *)
(* Empty.                                                                  *)
(***************************************************************************)
C3_EmptySentinel ==
    /\ inserted = {} =>
         /\ \A i \in 1..4 : ~Traversals(bst)[i].some
         /\ is_empty(bst)
         /\ len(bst) = 0
    /\ \A i \in 1..4 : ~Traversals(bst)[i].some <=> ~IsNode(bst)

(***************************************************************************)
(* C4. After inserting mutually comparable values, in any order and with   *)
(* or without repeats, len() is the number of distinct values inserted;    *)
(* is_empty() is true exactly when len() is 0, which is exactly when the   *)
(* tree is Empty.                                                          *)
(***************************************************************************)
C4_Size ==
    /\ NaN \notin inserted => len(bst) = Cardinality(inserted)
    /\ is_empty(bst) <=> len(bst) = 0
    /\ is_empty(bst) <=> ~IsNode(bst)

\* A value inserted before has been inserted again into a tree of several
\* comparable values, and len() is still the number of distinct values.
C4_Witness ==
    /\ call.op = "insert"
    /\ call.seen
    /\ NaN \notin inserted
    /\ len(bst) = Cardinality(inserted)
    /\ len(bst) >= 3

(***************************************************************************)
(* C5. For every non-empty tree reachable by inserts, each of the four     *)
(* traversals returns Some(sequence) of exactly len() elements, and each   *)
(* sequence holds every stored value exactly once: the four differ only in *)
(* order.                                                                  *)
(***************************************************************************)
C5_TraversalCompleteness ==
    IsNode(bst) =>
        \A i \in 1..4 :
            LET r == Traversals(bst)[i]
            IN  /\ r.some
                /\ Len(r.vec) = len(bst)
                /\ NoRepeats(r.vec)
                /\ Range(r.vec) = StoredValues(bst)
                /\ Cardinality(StoredValues(bst)) = len(bst)

\* A traversal has been returned for a full tree on which the four orders
\* are pairwise different.
C5_Witness ==
    /\ call.op = "breadth_first_traversal"
    /\ Len(call.ret.vec) = MaxVal
    /\ \A i, j \in 1..4 : i # j => Traversals(bst)[i] # Traversals(bst)[j]

(***************************************************************************)
(* C6. insert(x) performed immediately after insert(x), and insert(x) of   *)
(* a value equal to a stored value wherever it sits, leave the tree, len() *)
(* and the output of all four traversals unchanged.                        *)
(***************************************************************************)
C6_Step ==
    (/\ call'.op = "insert"
     /\ \/ call.op = "insert" /\ call.arg = call'.arg
        \/ \E y \in StoredValues(bst) : partial_cmp(call'.arg, y) = "Equal")
    => /\ bst' = bst
       /\ len(bst') = len(bst)
       /\ Traversals(bst') = Traversals(bst)

C6_DuplicateNoOp == [][C6_Step]_vars

\* A value stored at depth two or more has been inserted again.
C6_Witness ==
    /\ call.op = "insert"
    /\ call.seen
    /\ call.arg \in StoredValues(bst)
    /\ Len(PathOf(bst, call.arg)) >= 2

(***************************************************************************)
(* C7. For every tree reachable by inserts, the empty tree included, and   *)
(* every value x whose comparison is undefined, insert(x) leaves the tree, *)
(* len() and every traversal unchanged, so such a value is never stored.   *)
(***************************************************************************)
C7_Step ==
    (call'.op = "insert" /\ call'.arg = NaN)
    => /\ bst' = bst
       /\ len(bst') = len(bst)
       /\ Traversals(bst') = Traversals(bst)
       /\ NaN \notin StoredValues(bst')

C7_IncomparableNoOp == [][C7_Step]_vars

(***************************************************************************)
(* C8. breadth_first_traversal of a non-empty tree returns the stored      *)
(* values in level order: the root first, depths non-decreasing, and       *)
(* within one depth left to right; what is enqueued is the root and then   *)
(* Nodes only, each Node once.  The insertion sequence of the tests yields *)
(* 60,12,90,4,37,84,100,1.                                                 *)
(***************************************************************************)
C8_LevelOrder ==
    /\ LET pushed == bfs_loop(<<>>, <<bst>>, <<bst>>).pushed
       IN  /\ pushed[1] = bst
           /\ \A i \in 2..Len(pushed) : IsNode(pushed[i])
           /\ IsNode(bst) => Len(pushed) = Cardinality(NodePaths(bst))
    /\ IsNode(bst) =>
         LET r == breadth_first_traversal(bst)
         IN  /\ r.some
             /\ r.vec[1] = bst.value
             /\ Range(r.vec) = StoredValues(bst)
             /\ NoRepeats(r.vec)
             /\ \A i \in 1..(Len(r.vec) - 1) :
                  LevelBefore(PathOf(bst, r.vec[i]), PathOf(bst, r.vec[i + 1]))
    /\ breadth_first_traversal(TestTree)
         = Some(<<60, 12, 90, 4, 37, 84, 100, 1>>)

\* breadth_first_traversal has returned the values of a tree with two nodes
\* at depth one and nodes below both of them.
C8_Witness ==
    /\ call.op = "breadth_first_traversal"
    /\ Len(call.ret.vec) >= 5
    /\ \E p, q \in NodePaths(bst) :
         /\ Len(p) = 2
         /\ Len(q) = 2
         /\ p[1] = "L"
         /\ q[1] = "R"

(***************************************************************************)
(* C9. At every Node, the pre-order is the node's value, then the          *)
(* pre-order of the left subtree, then that of the right subtree; the      *)
(* post-order is the post-order of the left subtree, then of the right,    *)
(* then the node's value.  The insertion sequence of the tests gives       *)
(* pre-order 60,12,4,1,37,90,84,100 and post-order 1,4,37,12,84,100,90,60. *)
(***************************************************************************)
C9_DepthFirstOrder ==
    /\ \A p \in NodePaths(bst) :
         LET n == SubtreeAt(bst, p)
         IN  /\ pre_order_traversal(n)
                  = Some(<<n.value>> \o Vec(pre_order_traversal(n.left))
                                     \o Vec(pre_order_traversal(n.right)))
             /\ post_order_traversal(n)
                  = Some(Vec(post_order_traversal(n.left))
                           \o Vec(post_order_traversal(n.right))
                           \o <<n.value>>)
    /\ pre_order_traversal(TestTree)
         = Some(<<60, 12, 4, 1, 37, 90, 84, 100>>)
    /\ post_order_traversal(TestTree)
         = Some(<<1, 4, 37, 12, 84, 100, 90, 60>>)

\* post_order_traversal has returned the values of a tree whose root has two
\* children, one of them with a child of its own.
C9_Witness ==
    /\ call.op = "post_order_traversal"
    /\ call.ret.some
    /\ Len(call.ret.vec) >= 4
    /\ {<<"L">>, <<"R">>} \subseteq NodePaths(bst)

(***************************************************************************)
(* C10. Every insert either leaves the tree unchanged or turns exactly one *)
(* Empty position into a Node holding the new value with two Empty         *)
(* children; every Node stays a Node with the same value at the same       *)
(* position, and len() grows by 0 or 1.  No other call changes the tree.   *)
(***************************************************************************)
C10_Step ==
    \/ bst' = bst
    \/ LET old == NodePaths(bst)
           now == NodePaths(bst')
       IN  /\ call'.op = "insert"
           /\ \E p \in now \ old :
                /\ now = old \cup {p}
                /\ SubtreeAt(bst', p) = Node(call'.arg, Empty, Empty)
           /\ \A q \in old :
                /\ q \in now
                /\ ValueAt(bst', q) = ValueAt(bst, q)
           /\ len(bst') = len(bst) + 1

C10_GrowOnly == [][C10_Step]_vars

\* An insert has added a node at depth two or more.
C10_Witness ==
    /\ call.op = "insert"
    /\ ~call.seen
    /\ call.arg \in StoredValues(bst)
    /\ Len(PathOf(bst, call.arg)) >= 2

====
